---- MODULE Spec2Model ----
(***************************************************************************)
(* A model of DenseClus (src/denseclus/DenseClus.py): the configuration    *)
(* merge done by __init__, the fit pipeline (feature extraction, the two   *)
(* UMAP fits, the combination of the two fitted models, the HDBSCAN fit)   *)
(* and the out-of-sample operations predict, predict_proba and score.      *)
(*                                                                         *)
(* umap, hdbscan and the feature extractors are collaborators: a call to   *)
(* one of them either raises or returns an object, which the model keeps   *)
(* as a record naming what it was built from.  Coordinates returned by     *)
(* UMAP.transform are drawn from a small set of integer matrices; every    *)
(* matrix is kept as the sequence of its cells.  Parameter values are      *)
(* opaque to the class, which only copies them, and are kept as strings.   *)
(***************************************************************************)
EXTENDS Integers, Sequences, FiniteSets, TLC

\* ------------------------------------------------------------------ bounds

\* fit calls made on one instance
MaxFits == 2
\* cells of a coordinate matrix
NCells == 2
\* largest coordinate UMAP.transform returns
MaxCoord == 1

\* --------------------------------------------------------- configuration

\* the methods __init__ accepts
ValidMethods == {"intersection", "union", "contrast", "intersection_union_mapper"}

\* the methods a caller may pass
Methods == ValidMethods \cup {"average"}

\* the dictionary default_umap_params of __init__
default_umap_params ==
    [categorical |-> [metric |-> "dice", n_neighbors |-> "30",
                      n_components |-> "5", min_dist |-> "0.0"],
     numerical   |-> [metric |-> "l2", n_neighbors |-> "30",
                      n_components |-> "5", min_dist |-> "0.0"],
     combined    |-> [n_neighbors |-> "30", min_dist |-> "0.0",
                      n_components |-> "5"]]

\* the keys a caller may use in umap_params
UserKeys == {"categorical", "numerical", "combined", "shared"}

\* the parameter dictionaries a caller may give for one key
UserDicts ==
    {[n_neighbors |-> "15", min_dist |-> "0.1"],
     [metric |-> "hamming"],
     [n_epochs |-> "200"]}

\* the umap_params a caller may pass; None and {} are both the empty mapping
UserParams == UNION {[K -> UserDicts] : K \in SUBSET UserKeys}

\* dict.update: the entries of u over those of d
DictUpdateReplacing(d, u) == u

DictUpdate(d, u) ==
    [p \in DOMAIN d \cup DOMAIN u |-> IF p \in DOMAIN u THEN u[p] ELSE d[p]]

\* the loop of __init__ over a caller's umap_params, all of whose keys are known
MergeParams(user) ==
    [g \in DOMAIN default_umap_params |->
        IF g \in DOMAIN user
        THEN DictUpdate(default_umap_params[g], user[g])
        ELSE default_umap_params[g]]

\* the first check of __init__
MethodAcceptedAlways(method) == TRUE

MethodAccepted(method) == method \in ValidMethods

\* what __init__ raises, "none" when it returns
InitRaises(method, user) ==
    IF ~MethodAccepted(method) THEN "InvalidStrategy"
    ELSE IF \E key \in DOMAIN user : key \notin DOMAIN default_umap_params
         THEN "InvalidConfigKey"
         ELSE "none"

\* ------------------------------------------------------ collaborators' values

\* an attribute the instance does not have
Missing == [kind |-> "missing"]

\* no value: of a call that raised, or that has not been made
None == [kind |-> "none"]

\* what a caller may pass to fit: a DataFrame, or something else
FitArgs == {[is_table |-> TRUE], [is_table |-> FALSE]}

\* the cells of a coordinate matrix
Matrices == [1..NCells -> 0..MaxCoord]

\* extract_categorical(df), extract_numerical(df)
Extract(which, df, call) == [kind |-> which, of |-> df, call |-> call]

\* umap.UMAP(**params).fit(data)
UmapFit(params, data, call) ==
    [kind |-> "umap", params |-> params, fit_on |-> data, call |-> call]

\* a * b, a + b, a - b on fitted UMAP models
Compose(operator, a, b, call) ==
    [kind |-> "composite", op |-> operator, left |-> a, right |-> b, call |-> call]

\* model.embedding_: the coordinates a fitted model gives its training rows
Embedding(model) == [kind |-> "embedding_", of |-> model]

\* hdbscan.HDBSCAN(prediction_data=True, ...).fit(points)
HdbscanFit(points, call) ==
    [kind |-> "hdbscan", fit_on |-> points,
     labels_ |-> [kind |-> "labels_", of |-> points], call |-> call]

\* numpy's elementwise *, + and - on two coordinate matrices
Mul(A, B) == [i \in DOMAIN A |-> A[i] * B[i]]

Add(A, B) == [i \in DOMAIN A |-> A[i] + B[i]]

Sub(A, B) == [i \in DOMAIN A |-> A[i] - B[i]]

\* ------------------------------------------------------------------- state

VARIABLES
    \* the arguments of the constructor call
    arg_umap_combine_method, arg_umap_params,
    \* where the program is: before construction ("new"), between public calls
    \* ("idle"), at a step of fit, or where a public call has just returned or
    \* raised ("returned")
    pc,
    \* the instance's attributes
    umap_combine_method, umap_params,
    categorical_, numerical_, categorical_umap_, numerical_umap_, mapper_, hdbscan_,
    \* the public call in progress or just over: its name, what it raised,
    \* what it returned
    op, raised, result,
    \* the locals of _predict_base when it reached approximate_predict
    numerical_embedding, categorical_embedding, approx_args,
    \* of a fit call: the step logger.error named, the step that raised, the
    \* steps run, its argument
    errlog, failed_step, steps, fit_arg,
    \* fit calls that passed the DataFrame check; whether one of them completed
    fit_calls, fitted_ok

args == <<arg_umap_combine_method, arg_umap_params>>

config == <<umap_combine_method, umap_params>>

attrs == <<categorical_, numerical_, categorical_umap_, numerical_umap_, mapper_, hdbscan_>>

predict_locals == <<numerical_embedding, categorical_embedding, approx_args>>

fit_locals == <<errlog, failed_step, steps, fit_arg>>

vars == <<args, pc, config, attrs, op, raised, result, predict_locals, fit_locals,
          fit_calls, fitted_ok>>

\* the state before the constructor runs, for the arguments method and user
Before(methods, users) ==
    /\ arg_umap_combine_method \in methods
    /\ arg_umap_params \in users
    /\ pc = "new"
    /\ umap_combine_method = "unset"
    /\ umap_params = Missing
    /\ categorical_ = Missing
    /\ numerical_ = Missing
    /\ categorical_umap_ = Missing
    /\ numerical_umap_ = Missing
    /\ mapper_ = Missing
    /\ hdbscan_ = Missing
    /\ op = "none"
    /\ raised = "none"
    /\ result = None
    /\ numerical_embedding = <<>>
    /\ categorical_embedding = <<>>
    /\ approx_args = None
    /\ errlog = "none"
    /\ failed_step = "none"
    /\ steps = <<>>
    /\ fit_arg = None
    /\ fit_calls = 0
    /\ fitted_ok = FALSE

\* DenseClus(umap_combine_method=..., umap_params=...)
__init__ ==
    /\ pc = "new"
    /\ op' = "__init__"
    /\ raised' = InitRaises(arg_umap_combine_method, arg_umap_params)
    /\ IF raised' = "none"
       THEN /\ umap_combine_method' = arg_umap_combine_method
            /\ umap_params' = MergeParams(arg_umap_params)
       ELSE UNCHANGED config
    /\ pc' = "returned"
    /\ UNCHANGED <<args, attrs, result, predict_locals, fit_locals, fit_calls, fitted_ok>>

\* ---------------------------------------------------------------------- fit

\* the body of fit after its DataFrame check: the step that follows each step
NextStepFusingEarly(step) ==
    CASE step = "extract_categorical" -> "extract_numerical"
      [] step = "extract_numerical" -> "_fit_categorical"
      [] step = "_fit_categorical" -> "_umap_embeddings"
      [] step = "_umap_embeddings" -> "_fit_numerical"
      [] step = "_fit_numerical" -> "_fit_hdbscan"
      [] step = "_fit_hdbscan" -> "returned"

NextStep(step) ==
    CASE step = "extract_categorical" -> "extract_numerical"
      [] step = "extract_numerical" -> "_fit_categorical"
      [] step = "_fit_categorical" -> "_fit_numerical"
      [] step = "_fit_numerical" -> "_umap_embeddings"
      [] step = "_umap_embeddings" -> "_fit_hdbscan"
      [] step = "_fit_hdbscan" -> "returned"

\* a step of fit returns: fit goes on, or returns after its last step
Proceed ==
    /\ pc' = NextStep(pc)
    /\ steps' = Append(steps, pc)
    /\ fitted_ok' = (fitted_ok \/ pc' = "returned")
    /\ UNCHANGED <<raised, errlog, failed_step>>

\* a step of fit raises exc, having logged an error naming the step log
Raise(exc, log) ==
    /\ pc' = "returned"
    /\ steps' = Append(steps, pc)
    /\ raised' = exc
    /\ errlog' = log
    /\ failed_step' = pc
    /\ UNCHANGED fitted_ok

\* what no step of fit touches
FitFrame == UNCHANGED <<args, config, op, result, predict_locals, fit_arg, fit_calls>>

\* fit written to clear the cluster model before it checks its argument
fit_clearing_first ==
    /\ pc = "idle"
    /\ \E df \in FitArgs :
        /\ fit_arg' = df
        /\ hdbscan_' = Missing
        /\ IF ~df.is_table
           THEN /\ raised' = "TypeError"
                /\ pc' = "returned"
                /\ UNCHANGED fit_calls
           ELSE /\ fit_calls < MaxFits
                /\ fit_calls' = fit_calls + 1
                /\ raised' = "none"
                /\ pc' = "extract_categorical"
    /\ op' = "fit"
    /\ UNCHANGED <<result, errlog, failed_step, steps>>
    /\ UNCHANGED <<args, config, categorical_, numerical_, categorical_umap_,
                   numerical_umap_, mapper_, predict_locals, fitted_ok>>

\* fit(df), up to its first step
fit ==
    /\ pc = "idle"
    /\ \E df \in FitArgs :
        /\ fit_arg' = df
        /\ IF ~df.is_table
           THEN /\ raised' = "TypeError"
                /\ pc' = "returned"
                /\ UNCHANGED fit_calls
           ELSE /\ fit_calls < MaxFits
                /\ fit_calls' = fit_calls + 1
                /\ raised' = "none"
                /\ pc' = "extract_categorical"
    /\ op' = "fit"
    /\ UNCHANGED <<result, errlog, failed_step, steps>>
    /\ UNCHANGED <<args, config, attrs, predict_locals, fitted_ok>>

\* self.categorical_ = extract_categorical(df, **self.kwargs)
extract_categorical ==
    /\ pc = "extract_categorical"
    /\ \E ok \in BOOLEAN :
        IF ok
        THEN /\ categorical_' = Extract("categorical", fit_arg, fit_calls)
             /\ Proceed
        ELSE /\ Raise("FitFailure", "none")
             /\ UNCHANGED categorical_
    /\ UNCHANGED <<numerical_, categorical_umap_, numerical_umap_, mapper_, hdbscan_>>
    /\ FitFrame

\* self.numerical_ = extract_numerical(df, **self.kwargs)
extract_numerical ==
    /\ pc = "extract_numerical"
    /\ \E ok \in BOOLEAN :
        IF ok
        THEN /\ numerical_' = Extract("numerical", fit_arg, fit_calls)
             /\ Proceed
        ELSE /\ Raise("FitFailure", "none")
             /\ UNCHANGED numerical_
    /\ UNCHANGED <<categorical_, categorical_umap_, numerical_umap_, mapper_, hdbscan_>>
    /\ FitFrame

\* the message of the logger.error call in _fit_categorical's except clause
CategoricalErrorLog == "numerical"

_fit_categorical ==
    /\ pc = "_fit_categorical"
    /\ \E ok \in BOOLEAN :
        IF ok
        THEN /\ categorical_umap_' =
                    UmapFit(umap_params["categorical"], categorical_, fit_calls)
             /\ Proceed
        ELSE /\ Raise("FitFailure", CategoricalErrorLog)
             /\ UNCHANGED categorical_umap_
    /\ UNCHANGED <<categorical_, numerical_, numerical_umap_, mapper_, hdbscan_>>
    /\ FitFrame

\* the message of the logger.error call in _fit_numerical's except clause
NumericalErrorLog == "numerical"

_fit_numerical ==
    /\ pc = "_fit_numerical"
    /\ \E ok \in BOOLEAN :
        IF ok
        THEN /\ numerical_umap_' =
                    UmapFit(umap_params["numerical"], numerical_, fit_calls)
             /\ Proceed
        ELSE /\ Raise("FitFailure", NumericalErrorLog)
             /\ UNCHANGED numerical_umap_
    /\ UNCHANGED <<categorical_, numerical_, categorical_umap_, mapper_, hdbscan_>>
    /\ FitFrame

\* the combination _umap_embeddings makes of the two fitted models; for
\* intersection_union_mapper, with a third model fitted on self.numerical_
CombineModels(method) ==
    CASE method = "intersection" ->
            Compose("intersection", numerical_umap_, categorical_umap_, fit_calls)
      [] method = "union" ->
            Compose("union", numerical_umap_, categorical_umap_, fit_calls)
      [] method = "contrast" ->
            Compose("contrast", numerical_umap_, categorical_umap_, fit_calls)
      [] method = "intersection_union_mapper" ->
            Compose("intersection",
                    UmapFit(umap_params["combined"], numerical_, fit_calls),
                    Compose("union", numerical_umap_, categorical_umap_, fit_calls),
                    fit_calls)

_umap_embeddings ==
    /\ pc = "_umap_embeddings"
    /\ IF umap_combine_method \notin ValidMethods
       THEN /\ Raise("InvalidStrategy", "combine")
            /\ UNCHANGED mapper_
       ELSE IF numerical_umap_ = Missing \/ categorical_umap_ = Missing
       THEN /\ Raise("AttributeError", "none")
            /\ UNCHANGED mapper_
       ELSE \E ok \in BOOLEAN :
                IF ok
                THEN /\ mapper_' = CombineModels(umap_combine_method)
                     /\ Proceed
                ELSE /\ Raise("FitFailure", "none")
                     /\ UNCHANGED mapper_
    /\ UNCHANGED <<categorical_, numerical_, categorical_umap_, numerical_umap_, hdbscan_>>
    /\ FitFrame

_fit_hdbscan ==
    /\ pc = "_fit_hdbscan"
    /\ IF mapper_ = Missing
       THEN /\ Raise("AttributeError", "none")
            /\ UNCHANGED hdbscan_
       ELSE \E ok \in BOOLEAN :
                IF ok
                THEN /\ hdbscan_' = HdbscanFit(Embedding(mapper_), fit_calls)
                     /\ Proceed
                ELSE /\ Raise("FitFailure", "none")
                     /\ UNCHANGED hdbscan_
    /\ UNCHANGED <<categorical_, numerical_, categorical_umap_, numerical_umap_, mapper_>>
    /\ FitFrame

\* ------------------------------------------------- predict, predict_proba, score

\* the calls of _predict_base to a collaborator, any of which may raise
PredictCalls ==
    {"extract", "transform_categorical", "transform_numerical", "combine",
     "approximate_predict"}

\* mapper_new: the two transformed matrices combined by the instance's method
CombineNewSwapped(method, A, B) ==
    CASE method = "intersection" -> Mul(B, A)
      [] method = "union" -> Add(B, A)
      [] method = "contrast" -> Sub(B, A)
      [] method = "intersection_union_mapper" ->
            Compose("intersection", UmapFit(umap_params["combined"], A, 0), Add(B, A), 0)

CombineNew(method, A, B) ==
    CASE method = "intersection" -> Mul(A, B)
      [] method = "union" -> Add(A, B)
      [] method = "contrast" -> Sub(A, B)
      [] method = "intersection_union_mapper" ->
            Compose("intersection", UmapFit(umap_params["combined"], A, 0), Add(A, B), 0)

\* what _predict_base raises when the collaborator call failing (if any) is the
\* one named, "none" when it returns
PredictRaises(failing) ==
    IF failing = "extract" THEN "PredictFailure"
    ELSE IF categorical_umap_ = Missing THEN "AttributeError"
    ELSE IF failing = "transform_categorical" THEN "PredictFailure"
    ELSE IF numerical_umap_ = Missing THEN "AttributeError"
    ELSE IF failing = "transform_numerical" THEN "PredictFailure"
    ELSE IF umap_combine_method \notin ValidMethods THEN "InvalidStrategy"
    ELSE IF failing = "combine" THEN "PredictFailure"
    ELSE IF hdbscan_ = Missing THEN "AttributeError"
    ELSE IF failing = "approximate_predict" THEN "PredictFailure"
    ELSE "none"

\* what predict, predict_proba and score have nothing to do with
CallFrame == UNCHANGED <<args, config, fit_locals, fit_calls, fitted_ok>>

\* _predict_base(df_new) called by predict (which = "labels") or by
\* predict_proba (which = "strengths"); A and B are what the two transforms return
_predict_base(which) ==
    /\ pc = "idle"
    /\ \E failing \in PredictCalls \cup {"none"} :
        /\ raised' = PredictRaises(failing)
        /\ IF raised' = "none"
           THEN \E A \in Matrices, B \in Matrices :
                /\ numerical_embedding' = A
                /\ categorical_embedding' = B
                /\ approx_args' = [clusterer |-> hdbscan_,
                                   points |-> CombineNew(umap_combine_method, A, B)]
                /\ result' = [kind |-> which, of |-> approx_args']
           ELSE UNCHANGED <<predict_locals, result>>
    /\ pc' = "returned"
    /\ CallFrame

\* predict written to keep the composition it builds under
\* intersection_union_mapper as the instance's mapper_
predict_keeping_mapper ==
    /\ op' = "predict"
    /\ _predict_base("labels")
    /\ mapper_' = IF raised' = "none" /\ umap_combine_method = "intersection_union_mapper"
                  THEN approx_args'.points
                  ELSE mapper_
    /\ UNCHANGED <<categorical_, numerical_, categorical_umap_, numerical_umap_, hdbscan_>>

predict ==
    /\ op' = "predict"
    /\ _predict_base("labels")
    /\ UNCHANGED attrs

predict_proba ==
    /\ op' = "predict_proba"
    /\ _predict_base("strengths")
    /\ UNCHANGED attrs

score ==
    /\ pc = "idle"
    /\ op' = "score"
    /\ IF hdbscan_ = Missing
       THEN /\ raised' = "AttributeError"
            /\ UNCHANGED result
       ELSE /\ raised' = "none"
            /\ result' = hdbscan_.labels_
    /\ pc' = "returned"
    /\ UNCHANGED <<attrs, predict_locals>>
    /\ CallFrame

\* the caller has the call's result or exception; the call's locals are gone.
\* A constructor that raised left no instance to call.
caller_resumes ==
    /\ pc = "returned"
    /\ ~(op = "__init__" /\ raised # "none")
    /\ pc' = "idle"
    /\ op' = "none"
    /\ raised' = "none"
    /\ result' = None
    /\ numerical_embedding' = <<>>
    /\ categorical_embedding' = <<>>
    /\ approx_args' = None
    /\ errlog' = "none"
    /\ failed_step' = "none"
    /\ steps' = <<>>
    /\ fit_arg' = None
    /\ UNCHANGED <<args, config, attrs, fit_calls, fitted_ok>>

\* ----------------------------------------------------------- specifications

\* the arguments the constructor is given where the calls that follow matter
FewUserParams ==
    {u \in UserParams :
        /\ DOMAIN u \subseteq {"combined", "shared"}
        /\ Cardinality(DOMAIN u) <= 1
        /\ \A k \in DOMAIN u : "n_neighbors" \in DOMAIN u[k]}

Init == Before(Methods, FewUserParams)

Next ==
    \/ __init__
    \/ fit
    \/ extract_categorical
    \/ extract_numerical
    \/ _fit_categorical
    \/ _fit_numerical
    \/ _umap_embeddings
    \/ _fit_hdbscan
    \/ predict
    \/ predict_proba
    \/ score
    \/ caller_resumes

Spec == Init /\ [][Next]_vars

\* the constructor alone, over every argument
InitConfig == Before(Methods, UserParams)

SpecConfig == InitConfig /\ [][__init__]_vars

\* -------------------------------------------------------------- properties

\* the calls that ask a fitted instance for something
Queries == {"predict", "predict_proba", "score"}

\* a public call has just returned a value to its caller
Returned(name) == pc = "returned" /\ op = name /\ raised = "none"

\* C1: on an instance on which no fit has completed, predict, predict_proba
\* and score all end by raising NotFittedError (a call in which a collaborator
\* itself raised is left aside).
C1_UnfittedQueryRaisesNotFitted ==
    (pc = "returned" /\ op \in Queries /\ ~fitted_ok /\ raised # "PredictFailure")
    => raised = "NotFittedError"

\* the step a logged error has to name for each of fit's steps 2 to 5
StepLogName(step) ==
    CASE step = "_fit_categorical" -> "categorical"
      [] step = "_fit_numerical" -> "numerical"
      [] step = "_umap_embeddings" -> "combine"
      [] step = "_fit_hdbscan" -> "hdbscan"

\* C2: when one of fit's steps 2 to 5 fails, the error logged names that step,
\* and what the collaborator raised reaches fit's caller.
C2_FailureLoggedWithItsStep ==
    (pc = "returned" /\ op = "fit"
        /\ failed_step \in {"_fit_categorical", "_fit_numerical",
                            "_umap_embeddings", "_fit_hdbscan"})
    => (errlog = StepLogName(failed_step) /\ raised = "FitFailure")

\* C3: fit of something that is not a DataFrame raises TypeError and leaves
\* every attribute and the configuration as they were.
C3_NonTableFitChangesNothing ==
    [][(pc = "idle" /\ op' = "fit" /\ ~fit_arg'.is_table)
        => (raised' = "TypeError" /\ pc' = "returned"
            /\ UNCHANGED <<attrs, config, fitted_ok>>)]_vars

\* a fitted instance has just been given something that is not a DataFrame
C3_Witness ==
    /\ pc = "returned" /\ op = "fit" /\ raised = "TypeError"
    /\ ~fit_arg.is_table
    /\ hdbscan_ # Missing

\* the constructor was given a umap_params key it does not know
UnknownKeyGiven ==
    \E key \in DOMAIN arg_umap_params :
        key \notin {"categorical", "numerical", "combined"}

\* the constructor was given a method it does not know
UnknownMethodGiven ==
    arg_umap_combine_method \notin
        {"intersection", "union", "contrast", "intersection_union_mapper"}

\* C4: an unknown method or an unknown umap_params key makes the constructor
\* raise (InvalidStrategy for the method, which is checked first;
\* InvalidConfigKey for the key), so that no instance exists to be fitted, and
\* neither error is raised by any later call.
C4_InvalidConfigRejectedAtConstruction ==
    /\ (pc # "new" /\ (UnknownMethodGiven \/ UnknownKeyGiven))
        => /\ pc = "returned" /\ op = "__init__"
           /\ raised = IF UnknownMethodGiven THEN "InvalidStrategy"
                       ELSE "InvalidConfigKey"
           /\ umap_combine_method = "unset"
           /\ fit_calls = 0
    /\ raised \in {"InvalidStrategy", "InvalidConfigKey"} => op = "__init__"

\* the constructor has just refused an unknown key
C4_Witness ==
    /\ pc = "returned" /\ op = "__init__" /\ raised = "InvalidConfigKey"
    /\ UnknownKeyGiven /\ ~UnknownMethodGiven

\* C5: the merged umap_params hold, for every group and parameter, the
\* caller's value where the caller gave one and the default otherwise; a
\* group the caller did not give is the default group, and no default
\* parameter of a group the caller gave is lost.
C5_ShallowMerge ==
    Returned("__init__") =>
        /\ DOMAIN umap_params = DOMAIN default_umap_params
        /\ \A g \in DOMAIN default_umap_params :
            IF g \in DOMAIN arg_umap_params
            THEN /\ DOMAIN default_umap_params[g] \subseteq DOMAIN umap_params[g]
                 /\ DOMAIN arg_umap_params[g] \subseteq DOMAIN umap_params[g]
                 /\ \A p \in DOMAIN umap_params[g] :
                        \/ /\ p \in DOMAIN arg_umap_params[g]
                           /\ umap_params[g][p] = arg_umap_params[g][p]
                        \/ /\ p \notin DOMAIN arg_umap_params[g]
                           /\ p \in DOMAIN default_umap_params[g]
                           /\ umap_params[g][p] = default_umap_params[g][p]
            ELSE umap_params[g] = default_umap_params[g]

\* the caller overrode part of one group and nothing of another
C5_Witness ==
    /\ Returned("__init__")
    /\ DOMAIN arg_umap_params = {"categorical"}
    /\ arg_umap_params["categorical"] = [n_neighbors |-> "15", min_dist |-> "0.1"]
    /\ umap_params["categorical"].metric = "dice"
    /\ umap_params["categorical"].n_neighbors = "15"

\* the steps of fit in the order its body lists them
FitOrder ==
    <<"extract_categorical", "extract_numerical", "_fit_categorical",
      "_fit_numerical", "_umap_embeddings", "_fit_hdbscan">>

\* C6: the steps a fit call has run are always the first steps of fit's body,
\* in its order, with none skipped; a fit call that returns has run them all;
\* mapper_ exists only if both fitted UMAP models exist, and hdbscan_ only if
\* mapper_ exists.
C6_StepsInOrder ==
    /\ Len(steps) <= Len(FitOrder)
    /\ \A i \in 1..Len(steps) : steps[i] = FitOrder[i]
    /\ pc \notin {"new", "idle", "returned"}
        => (Len(steps) < Len(FitOrder) /\ pc = FitOrder[Len(steps) + 1])
    /\ Returned("fit") => steps = FitOrder
    /\ mapper_ # Missing => (categorical_umap_ # Missing /\ numerical_umap_ # Missing)
    /\ hdbscan_ # Missing => mapper_ # Missing

\* a fit call has run every step and returned
C6_Witness ==
    /\ Returned("fit")
    /\ steps = FitOrder
    /\ hdbscan_ # Missing
    /\ hdbscan_.call = fit_calls

\* C7: under intersection_union_mapper, mapper_ is the intersection of a model
\* fitted on the numerical embedding (the coordinates of the fitted numerical
\* model) with the union of the numerical and the categorical model.
C7_AuxiliaryFittedOnNumericalEmbedding ==
    (umap_combine_method = "intersection_union_mapper" /\ mapper_ # Missing)
    => /\ mapper_.op = "intersection"
       /\ mapper_.right.op = "union"
       /\ mapper_.right.left.fit_on.kind = "numerical"
       /\ mapper_.right.right.fit_on.kind = "categorical"
       /\ mapper_.left.fit_on = Embedding(mapper_.right.left)

\* C8: what predict and predict_proba hand to approximate_predict is, cell by
\* cell, the product (intersection), sum (union) or difference (contrast) of
\* the transformed numerical and categorical matrices, numerical on the left,
\* as in the composition of the two models that the cluster model was fitted on.
C8_PredictCombinesAsFit ==
    (pc = "returned" /\ op \in {"predict", "predict_proba"} /\ raised = "none"
        /\ umap_combine_method \in {"intersection", "union", "contrast"})
    => LET A == numerical_embedding
           B == categorical_embedding
           P == approx_args.points
           fitted == approx_args.clusterer.fit_on.of
       IN  /\ DOMAIN P = 1..NCells
           /\ \A i \in 1..NCells :
                P[i] = CASE umap_combine_method = "intersection" -> A[i] * B[i]
                         [] umap_combine_method = "union" -> A[i] + B[i]
                         [] umap_combine_method = "contrast" -> A[i] - B[i]
           /\ fitted.op = umap_combine_method
           /\ fitted.left.fit_on.kind = "numerical"
           /\ fitted.right.fit_on.kind = "categorical"

\* predict has returned under contrast, for two matrices whose order matters
C8_Witness ==
    /\ Returned("predict")
    /\ umap_combine_method = "contrast"
    /\ \E i \in 1..NCells : numerical_embedding[i] > categorical_embedding[i]
    /\ \E i \in 1..NCells : approx_args.points[i] > 0

\* C9: predict, predict_proba and score leave the split matrices, the fitted
\* models, mapper_, the cluster model and the configuration as they were, also
\* under intersection_union_mapper; score returns the labels of the cluster
\* model the last fit left.
C9_QueriesLeaveFittedState ==
    [][(pc = "idle" /\ op' \in Queries)
        => /\ UNCHANGED <<attrs, config, fitted_ok>>
           /\ (op' = "score" /\ raised' = "none") => result' = hdbscan_.labels_]_vars

\* predict has returned under intersection_union_mapper, having fitted a model
\* of its own
C9_Witness ==
    /\ Returned("predict")
    /\ umap_combine_method = "intersection_union_mapper"
    /\ approx_args.points.left.kind = "umap"
    /\ approx_args.points.left # mapper_.left
    /\ approx_args.clusterer = hdbscan_

\* C10: when predict or predict_proba returns, the fitted models it read (the
\* categorical one, the numerical one, and the cluster model with the
\* composition it was fitted on) were all written by one fit call: a cluster
\* model of an earlier fit is not used with a model of a later fit that failed.
C10_ResultFromOneFit ==
    (pc = "returned" /\ op \in {"predict", "predict_proba"} /\ raised = "none")
    => /\ categorical_umap_.call = approx_args.clusterer.call
       /\ numerical_umap_.call = approx_args.clusterer.call
       /\ approx_args.clusterer.fit_on.of.call = approx_args.clusterer.call

====
